---- MODULE Spec2Model ----
(***************************************************************************)
(* Model of httpmocker/client.py: the transport adapter, the Client        *)
(* session, the App handle and the Handler handle, as a state machine.     *)
(*                                                                         *)
(* One action is one call made by the caller.  The server is an input:     *)
(* each call that reaches the wire draws the response from Responses.      *)
(* The server is taken to follow the wire protocol as far as framing goes: *)
(* every response carries a JSON body, and every response carries the      *)
(* m-app-id header.  A failure body may or may not have an "error" field.  *)
(***************************************************************************)
EXTENDS Integers, Sequences, FiniteSets, TLC

VARIABLES
    adapters,   \* sequence of HTTPAdapter objects: [port, conn, connected]
    conns,      \* sequence of HTTPConnection objects: [adapter, closed]
    app,        \* the caller's App handle (or none yet)
    handler,    \* the caller's Handler handle (or none yet)
    last,       \* what the most recent call did and how it ended
    tick,       \* flips on every call, so that a call is never a stuttering step
    cycle,      \* observer: progress through attach, set_data, remove_data, detach, attach
    clients,    \* sequence of Client objects: [adapter, dflt]
    scope,      \* the latest `with` block: [pc, client, exits, pending]
    by          \* the Client the most recent Client call was made on (0: none)

vars == <<adapters, conns, app, handler, last, tick, cycle, clients, scope, by>>

\* ---------------------------------------------------------------- bounds
MaxConns == 2
MaxAdapters == 2
MaxClients == 2

\* ---------------------------------------------------------------- values
NoneConn == 0
NoneId == "None"
OK == 200
DefaultPort == 8080

Ids == {"abc123", "xyz789"}
Names == {"svc"}
Ports == {9001}
AppTypes == {"flask"}
HandlerNames == {"h1"}
Statuses == {200, 500}

\* The bodies the server may send, as text on the wire.
Bodies == { "{}",
            "{\"status\": \"running\"}",
            "{\"status\": \"stopped\"}",
            "{\"error\": \"boom\"}",
            "{\"error\": \"oops\"}" }

\* What the caller reads of a response: status and body, and for a start the
\* m-app-id header as well.
Responses == [status : Statuses, text : Bodies]
StartResponses == [status : Statuses, appid : Ids, text : Bodies]

\* An empty dict; also the body field of a call that returned no body.
EmptyBody == [k \in {} |-> ""]

\* json.loads(response.read().decode()) on the texts of Bodies: a dict from
\* field names to strings.
JsonLoads(text) ==
    CASE text = "{}" -> EmptyBody
      [] text = "{\"status\": \"running\"}" -> [k \in {"status"} |-> "running"]
      [] text = "{\"status\": \"stopped\"}" -> [k \in {"status"} |-> "stopped"]
      [] text = "{\"error\": \"boom\"}" -> [k \in {"error"} |-> "boom"]
      [] text = "{\"error\": \"oops\"}" -> [k \in {"error"} |-> "oops"]

\* ---------------------------------------------------------------- guards
\* utils.permit_access_if(attribute, value, msg): the wrapped method runs only
\* if the object's attribute equals value; otherwise the call fails locally.
permit_access_if(attribute, value) == attribute = value

StatusPermitted(a) == permit_access_if(a.started, TRUE)
\* bug: start left unguarded
StartPermitted_Unguarded(a) == TRUE
\* bug: handler left unguarded
HandlerPermitted_Unguarded(a) == TRUE
\* bug: detach left unguarded
DetachPermitted_Unguarded(h) == TRUE
StopPermitted(a) == permit_access_if(a.started, FALSE)
StartPermitted(a) == permit_access_if(a.started, FALSE)
RunningPermitted(a) == permit_access_if(a.started, TRUE)
HandlerPermitted(a) == permit_access_if(a.started, TRUE)

SetDataPermitted(h) == permit_access_if(h.handler_set, TRUE)
RemoveDataPermitted(h) == permit_access_if(h.handler_set, TRUE)
DetachPermitted(h) == permit_access_if(h.handler_set, TRUE)

\* bug: only 4xx answers taken as failures
Failed_ClientErrorsOnly(status) == status >= 400 /\ status < 500
\* `response.status != 200`
Failed(status) == status # OK

\* body["error"] raises KeyError when the field is missing
HasError(body) == "error" \in DOMAIN body

\* bug: the field name raised instead of the field's value
ErrorMessage_FieldName(body) == "error"
\* f'{body["error"]}', the message of the exception raised
ErrorMessage(body) == body["error"]

\* ---------------------------------------------------------------- results
NoCall == [op |-> "init", outcome |-> "return", msg |-> "", body |-> EmptyBody,
           flag |-> "None", sentOn |-> NoneConn, status |-> 0,
           appid |-> NoneId, text |-> "", sent |-> 0]

\* A call that ended without reaching the wire.
Local(op, outcome, msg) ==
    [NoCall EXCEPT !.op = op, !.outcome = outcome, !.msg = msg]

\* bug: the request is sent a second time
Exchanged_SentTwice(op, outcome, msg, body, c, resp) ==
    [op |-> op, outcome |-> outcome, msg |-> msg, body |-> body,
     flag |-> "None", sentOn |-> c, status |-> resp.status,
     appid |-> NoneId, text |-> resp.text, sent |-> 2]
\* A call that sent one request on connection c and read response resp
\* (one conn.request, one conn.getresponse; sent counts the requests).
Exchanged(op, outcome, msg, body, c, resp) ==
    [op |-> op, outcome |-> outcome, msg |-> msg, body |-> body,
     flag |-> "None", sentOn |-> c, status |-> resp.status,
     appid |-> NoneId, text |-> resp.text, sent |-> 1]

\* How a call that got a non-200 response ends: `raise exc(f'{body["error"]}')`.
Raised(op, exc, c, resp) ==
    LET body == JsonLoads(resp.text) IN
    IF HasError(body)
      THEN Exchanged(op, exc, ErrorMessage(body), EmptyBody, c, resp)
      ELSE Exchanged(op, "KeyError", "error", EmptyBody, c, resp)

NoApp == [exists |-> FALSE, name |-> "", id |-> NoneId, port |-> 0,
          conn |-> NoneConn, started |-> FALSE]
NoHandler == [exists |-> FALSE, name |-> "", conn |-> NoneConn,
              handler_set |-> FALSE]

\* No `with` block in progress.
NoScope == [pc |-> "out", client |-> 0, exits |-> 0, pending |-> NoCall]

\* The module as imported (the default adapter of Client.__init__ is made
\* once, when the class body is run) and one Client() constructed.
Init ==
    /\ adapters = << [port |-> DefaultPort, conn |-> NoneConn, connected |-> FALSE] >>
    /\ conns = << >>
    /\ app = NoApp
    /\ handler = NoHandler
    /\ last = NoCall
    /\ tick = 0
    /\ cycle = 0
    /\ clients = << [adapter |-> 1, dflt |-> TRUE] >>
    /\ scope = NoScope
    /\ by = 0

Called == tick' = 1 - tick

\* ---------------------------------------------------------------- adapter
\* HTTPAdapter.connect on adapter a: a new HTTPConnection replaces _conn.
Connect(a) ==
    /\ conns' = Append(conns, [adapter |-> a, closed |-> FALSE])
    /\ adapters' = [adapters EXCEPT ![a].conn = Len(conns) + 1,
                                    ![a].connected = TRUE]

\* HTTPAdapter.disconnect on adapter a: _conn.close(), then _connected =
\* False; _conn itself is left as it is.  With _conn None the close() call
\* raises AttributeError and nothing changes.
DisconnectRaises(a) == adapters[a].conn = NoneConn

Disconnect(a) ==
    IF DisconnectRaises(a)
      THEN UNCHANGED <<adapters, conns>>
      ELSE /\ conns' = [conns EXCEPT ![adapters[a].conn].closed = TRUE]
           /\ adapters' = [adapters EXCEPT ![a].connected = FALSE]

\* Client.connect on Client s
ClientConnect(s) ==
    /\ Len(conns) < MaxConns
    /\ Connect(clients[s].adapter)
    /\ last' = Local("connect", "return", "")
    /\ by' = s
    /\ Called
    /\ UNCHANGED <<app, handler, cycle>>

\* Client.disconnect -> HTTPAdapter.disconnect on Client s
ClientDisconnect(s) ==
    /\ Disconnect(clients[s].adapter)
    /\ last' = IF DisconnectRaises(clients[s].adapter)
                 THEN Local("disconnect", "AttributeError", "close")
                 ELSE Local("disconnect", "return", "")
    /\ by' = s
    /\ Called
    /\ UNCHANGED <<app, handler, cycle>>

\* Client.app -> App.__init__ on Client s
ClientApp(s, name, port) ==
    /\ app' = [exists |-> TRUE, name |-> name, id |-> NoneId, port |-> port,
               conn |-> adapters[clients[s].adapter].conn, started |-> FALSE]
    /\ last' = Local("app", "return", "")
    /\ by' = s
    /\ Called
    /\ UNCHANGED <<adapters, conns, handler, cycle>>

\* ---------------------------------------------------------------- App
\* bug: start forgets to store the id
AppAfterStart_NoId(a, resp) == [a EXCEPT !.started = TRUE]
\* bug: start forgets to set the flag
AppAfterStart_NoFlag(a, resp) == [a EXCEPT !.id = resp.appid]
\* App.start, the assignments after a 200 response
AppAfterStart(a, resp) == [a EXCEPT !.id = resp.appid, !.started = TRUE]

\* App.stop, the assignment after a 200 response
AppAfterStop(a) == [a EXCEPT !.started = FALSE]

\* bug: the handle asks the default adapter for its connection at each call
AppConn_Current(a) == adapters[1].conn
\* self.conn, the connection an App sends on: the one stored by __init__
AppConn(a) == a.conn

\* App.start
AppStart(resp) ==
    /\ app.exists
    /\ IF ~StartPermitted(app)
         THEN /\ last' = Local("start", "ClientException", "App has already started.")
              /\ app' = app
       ELSE IF AppConn(app) = NoneConn
         THEN /\ last' = Local("start", "AttributeError", "request")
              /\ app' = app
       ELSE IF Failed(resp.status)
         THEN /\ last' = [Raised("start", "AppException", AppConn(app), resp)
                          EXCEPT !.appid = resp.appid]
              /\ app' = app
       ELSE /\ app' = AppAfterStart(app, resp)
            /\ last' = [Exchanged("start", "return", "", JsonLoads(resp.text),
                                  AppConn(app), resp) EXCEPT !.appid = resp.appid]
    /\ Called
    /\ UNCHANGED <<adapters, conns, handler, cycle>>

\* App.stop
AppStop(resp) ==
    /\ app.exists
    /\ IF ~StopPermitted(app)
         THEN /\ last' = Local("stop", "ClientException", "App has not started.")
              /\ app' = app
       ELSE IF AppConn(app) = NoneConn
         THEN /\ last' = Local("stop", "AttributeError", "request")
              /\ app' = app
       ELSE IF Failed(resp.status)
         THEN /\ last' = Raised("stop", "AppException", AppConn(app), resp)
              /\ app' = app
       ELSE /\ app' = AppAfterStop(app)
            /\ last' = Exchanged("stop", "return", "", JsonLoads(resp.text),
                                 AppConn(app), resp)
    /\ Called
    /\ UNCHANGED <<adapters, conns, handler, cycle>>

\* The result of App.status for a call named op (status itself, or running
\* calling it): the guard of status, then one exchange.
StatusResult(op, resp) ==
    IF ~StatusPermitted(app)
      THEN Local(op, "ClientException", "App has not started.")
    ELSE IF AppConn(app) = NoneConn
      THEN Local(op, "AttributeError", "request")
    ELSE IF Failed(resp.status)
      THEN Raised(op, "AppException", AppConn(app), resp)
    ELSE Exchanged(op, "return", "", JsonLoads(resp.text), AppConn(app), resp)

\* App.status
AppStatus(resp) ==
    /\ app.exists
    /\ last' = StatusResult("status", resp)
    /\ Called
    /\ UNCHANGED <<adapters, conns, app, handler, cycle>>

\* App.running (a property): its own guard, then status()['status'] == 'running'
AppRunning(resp) ==
    /\ app.exists
    /\ LET r == StatusResult("running", resp) IN
       last' = IF ~RunningPermitted(app)
                 THEN Local("running", "ClientException", "App has not started.")
               ELSE IF r.outcome # "return" THEN r
               ELSE IF "status" \notin DOMAIN r.body
                 THEN [r EXCEPT !.outcome = "KeyError", !.msg = "status",
                                !.body = EmptyBody]
               ELSE [r EXCEPT !.body = EmptyBody,
                              !.flag = IF r.body["status"] = "running"
                                         THEN "True" ELSE "False"]
    /\ Called
    /\ UNCHANGED <<adapters, conns, app, handler, cycle>>

\* App.handler(name) with no adapter keyword: a fresh HTTPAdapter('0.0.0.0',
\* self.port) is connected and the Handler is bound to its connection.
\* App.handler(name, adapter=x): x.connect() is called and the Handler is bound
\* to the connection it returns.  supplied = 0 stands for no keyword.
AppHandler(name, supplied) ==
    /\ app.exists
    /\ IF ~HandlerPermitted(app)
         THEN /\ last' = Local("handler", "ClientException", "App has not started.")
              /\ UNCHANGED <<adapters, conns, handler, cycle>>
         ELSE /\ Len(conns) < MaxConns
              /\ supplied = 0 => Len(adapters) < MaxAdapters
              /\ LET c == Len(conns) + 1
                     a == IF supplied = 0 THEN Len(adapters) + 1 ELSE supplied
                     made == IF supplied = 0
                               THEN Append(adapters, [port |-> app.port,
                                                      conn |-> NoneConn,
                                                      connected |-> FALSE])
                               ELSE adapters
                 IN /\ conns' = Append(conns, [adapter |-> a, closed |-> FALSE])
                    /\ adapters' = [made EXCEPT ![a].conn = c, ![a].connected = TRUE]
                    /\ handler' = [exists |-> TRUE, name |-> name, conn |-> c,
                                   handler_set |-> FALSE]
              /\ cycle' = 0
              /\ last' = Local("handler", "return", "")
    /\ Called
    /\ UNCHANGED app

\* ---------------------------------------------------------------- Handler
\* Handler.attach, the assignment after a 200 response
HandlerAfterAttach(h) == [h EXCEPT !.handler_set = TRUE]

\* bug: detach forgets to clear the flag
HandlerAfterDetach_Keep(h) == h
\* Handler.detach, the assignment after a 200 response
HandlerAfterDetach(h) == [h EXCEPT !.handler_set = FALSE]

\* Observer of the scenario attach, set_data, remove_data, detach, attach on a
\* handler that starts detached, the server answering 200 to every step:
\* cycle counts the steps of the scenario made so far.
Expected(k) ==
    CASE k = 0 -> "attach"
      [] k = 1 -> "set_data"
      [] k = 2 -> "remove_data"
      [] k = 3 -> "detach"
      [] k = 4 -> "attach"
      [] OTHER -> "none"

NextCycle(op, resp) ==
    IF resp.status = OK /\ op = Expected(cycle) /\ (cycle = 0 => ~handler.handler_set)
      THEN cycle + 1
    ELSE IF resp.status = OK /\ op = "attach" /\ ~handler.handler_set
      THEN 1
    ELSE 0

\* Handler.set_data
HandlerSetData(resp) ==
    /\ handler.exists
    /\ last' = IF ~SetDataPermitted(handler)
                 THEN Local("set_data", "ClientException", "Handler is not set.")
               ELSE IF Failed(resp.status)
                 THEN Raised("set_data", "HandlerException", handler.conn, resp)
               ELSE Exchanged("set_data", "return", "", JsonLoads(resp.text),
                              handler.conn, resp)
    /\ cycle' = NextCycle("set_data", resp)
    /\ Called
    /\ UNCHANGED <<adapters, conns, app, handler>>

\* Handler.remove_data
HandlerRemoveData(resp) ==
    /\ handler.exists
    /\ last' = IF ~RemoveDataPermitted(handler)
                 THEN Local("remove_data", "ClientException", "Handler is not set.")
               ELSE IF Failed(resp.status)
                 THEN Raised("remove_data", "HandlerException", handler.conn, resp)
               ELSE Exchanged("remove_data", "return", "", JsonLoads(resp.text),
                              handler.conn, resp)
    /\ cycle' = NextCycle("remove_data", resp)
    /\ Called
    /\ UNCHANGED <<adapters, conns, app, handler>>

\* Handler.attach (the one Handler method with no permit_access_if)
HandlerAttach(resp) ==
    /\ handler.exists
    /\ IF Failed(resp.status)
         THEN /\ last' = Raised("attach", "HandlerException", handler.conn, resp)
              /\ handler' = handler
       ELSE /\ handler' = HandlerAfterAttach(handler)
            /\ last' = Exchanged("attach", "return", "", JsonLoads(resp.text),
                                 handler.conn, resp)
    /\ cycle' = NextCycle("attach", resp)
    /\ Called
    /\ UNCHANGED <<adapters, conns, app>>

\* Handler.detach
HandlerDetach(resp) ==
    /\ handler.exists
    /\ IF ~DetachPermitted(handler)
         THEN /\ last' = Local("detach", "ClientException", "Handler is not set.")
              /\ handler' = handler
       ELSE IF Failed(resp.status)
         THEN /\ last' = Raised("detach", "HandlerException", handler.conn, resp)
              /\ handler' = handler
       ELSE /\ handler' = HandlerAfterDetach(handler)
            /\ last' = Exchanged("detach", "return", "", JsonLoads(resp.text),
                                 handler.conn, resp)
    /\ cycle' = NextCycle("detach", resp)
    /\ Called
    /\ UNCHANGED <<adapters, conns, app>>

\* Calls made outside any `with` block, on the Client constructed at Init.
Next ==
    \/ \E s \in 1..Len(clients) :
          ClientConnect(s) /\ UNCHANGED <<clients, scope>>
    \/ \E s \in 1..Len(clients) :
          ClientDisconnect(s) /\ UNCHANGED <<clients, scope>>
    \/ \E s \in 1..Len(clients), name \in Names, port \in Ports :
          ClientApp(s, name, port) /\ UNCHANGED <<clients, scope>>
    \/ \E resp \in StartResponses :
          AppStart(resp) /\ UNCHANGED <<clients, scope, by>>
    \/ \E resp \in Responses :
          AppStop(resp) /\ UNCHANGED <<clients, scope, by>>
    \/ \E resp \in Responses :
          AppStatus(resp) /\ UNCHANGED <<clients, scope, by>>
    \/ \E resp \in Responses :
          AppRunning(resp) /\ UNCHANGED <<clients, scope, by>>
    \/ \E name \in HandlerNames, supplied \in {0, 1} :
          AppHandler(name, supplied) /\ UNCHANGED <<clients, scope, by>>
    \/ \E resp \in Responses :
          HandlerSetData(resp) /\ UNCHANGED <<clients, scope, by>>
    \/ \E resp \in Responses :
          HandlerRemoveData(resp) /\ UNCHANGED <<clients, scope, by>>
    \/ \E resp \in Responses :
          HandlerAttach(resp) /\ UNCHANGED <<clients, scope, by>>
    \/ \E resp \in Responses :
          HandlerDetach(resp) /\ UNCHANGED <<clients, scope, by>>

Spec == Init /\ [][Next]_vars

\* ---------------------------------------------------------------- Session
\* bug: a new default adapter for every Client()
ClientAdapter_FreshDefault(arg, fresh) == fresh
\* Client.__init__(adapter=HTTPAdapter('0.0.0.0', 8080)): the adapter of a new
\* Client.  The default value is the one object made when the class body ran
\* (adapter 1); arg = "explicit" stands for an adapter the caller made, which
\* becomes adapter number fresh.
ClientAdapter(arg, fresh) == IF arg = "default" THEN 1 ELSE fresh

NewAdapter(port) == [port |-> port, conn |-> NoneConn, connected |-> FALSE]

\* Client(...) constructed
ClientNew(arg, port) ==
    /\ Len(clients) < MaxClients
    /\ LET a == ClientAdapter(arg, Len(adapters) + 1) IN
       /\ a > Len(adapters) => Len(adapters) < MaxAdapters
       /\ adapters' = IF a > Len(adapters)
                        THEN Append(adapters, NewAdapter(port))
                        ELSE adapters
       /\ clients' = Append(clients, [adapter |-> a, dflt |-> arg = "default"])
    /\ by' = Len(clients) + 1
    /\ last' = Local("Client", "return", "")
    /\ Called
    /\ UNCHANGED <<conns, app, handler, cycle>>

\* A call made by the caller, outside any `with` block or in the body of the
\* one in progress: in the body, a call that raises leaves the block.
Body(A) ==
    /\ scope.pc \in {"out", "in"}
    /\ A
    /\ scope' = IF scope.pc = "in" /\ last'.outcome # "return"
                  THEN [scope EXCEPT !.pc = "raised", !.pending = last']
                  ELSE scope

\* Client.__enter__ on Client s: `with s:`
ScopeEnter(s) ==
    /\ scope.pc = "out"
    /\ Len(conns) < MaxConns
    /\ Connect(clients[s].adapter)
    /\ scope' = [pc |-> "in", client |-> s, exits |-> 0, pending |-> NoCall]
    /\ by' = s
    /\ last' = Local("enter", "return", "")
    /\ Called
    /\ UNCHANGED <<app, handler, cycle, clients>>

\* bug: __exit__ disconnects only when the block ended normally
ExitDisconnects_OnSuccessOnly(pending) == pending.outcome = "return"
\* Client.__exit__(type, exec, tb) calls self.disconnect() whatever type is
ExitDisconnects(pending) == TRUE

\* bug: __exit__ returns True and swallows the exception
ExitSuppresses_Always == TRUE
\* Client.__exit__ returns None: the exception of the block is not suppressed
ExitSuppresses == FALSE

\* Client.__exit__, run when the block is left: at its end (pc "in") or by
\* an exception (pc "raised").  An exception raised by disconnect() itself
\* replaces the pending one.
ScopeExit ==
    /\ scope.pc \in {"in", "raised"}
    /\ LET a == clients[scope.client].adapter
           calls == ExitDisconnects(scope.pending)
           raises == calls /\ DisconnectRaises(a)
           result == IF raises THEN Local("exit", "AttributeError", "close")
                               ELSE Local("exit", "return", "")
           pending == IF raises THEN result ELSE scope.pending
       IN /\ IF calls THEN Disconnect(a) ELSE UNCHANGED <<adapters, conns>>
          /\ last' = result
          /\ scope' = [scope EXCEPT
                         !.exits = @ + (IF calls THEN 1 ELSE 0),
                         !.pending = pending,
                         !.pc = IF raises
                                  \/ (pending.outcome # "return" /\ ~ExitSuppresses)
                                  THEN "propagating" ELSE "out"]
    /\ by' = scope.client
    /\ Called
    /\ UNCHANGED <<app, handler, cycle, clients>>

\* The exception that left the block reaches the caller of the `with`.
Propagate ==
    /\ scope.pc = "propagating"
    /\ last' = scope.pending
    /\ scope' = [scope EXCEPT !.pc = "out", !.pending = NoCall]
    /\ Called
    /\ UNCHANGED <<adapters, conns, app, handler, cycle, clients, by>>

\* mock_via(app_type, port): `with Client() as client:` connects the default
\* adapter, client.app() makes an App on the new connection, app.start() is
\* answered resp, __exit__ disconnects, and the App is returned to the caller
\* or the exception of start() propagates.  The Client is dropped on return.
MockVia(app_type, port, resp) ==
    /\ scope.pc = "out"
    /\ Len(conns) < MaxConns
    /\ LET a == ClientAdapter("default", Len(adapters) + 1)
           made == IF a > Len(adapters)
                     THEN Append(adapters, NewAdapter(DefaultPort))
                     ELSE adapters
           c == Len(conns) + 1
           made_app == [exists |-> TRUE, name |-> app_type, id |-> NoneId,
                        port |-> port, conn |-> c, started |-> FALSE]
           failed == Failed(resp.status)
           result == IF failed
                       THEN Raised("mock_via", "AppException", c, resp)
                       ELSE Exchanged("mock_via", "return", "", EmptyBody, c, resp)
           calls == ExitDisconnects(result)
       IN /\ a > Len(adapters) => Len(adapters) < MaxAdapters
          /\ StartPermitted(made_app)
          /\ conns' = Append(conns, [adapter |-> a, closed |-> calls])
          /\ adapters' = [made EXCEPT ![a].conn = c, ![a].connected = ~calls]
          /\ app' = IF failed THEN app ELSE AppAfterStart(made_app, resp)
          /\ last' = [result EXCEPT !.appid = resp.appid]
          /\ scope' = [pc |-> "out", client |-> 0,
                       exits |-> IF calls THEN 1 ELSE 0,
                       pending |-> NoCall]
    /\ Called
    /\ UNCHANGED <<handler, cycle, clients, by>>

\* The answers to start() drawn where Clients and `with` blocks are explored:
\* one success body, one failure body with an error field, one without.
SessionResponses ==
    {r \in StartResponses : r.text \in {"{}", "{\"error\": \"boom\"}"}}

\* Calls on one or more Clients, inside and outside `with` blocks.
NextSession ==
    \/ \E arg \in {"default", "explicit"}, port \in Ports :
          Body(ClientNew(arg, port))
    \/ \E s \in 1..Len(clients) :
          Body(ClientConnect(s) /\ UNCHANGED clients)
    \/ \E s \in 1..Len(clients) :
          Body(ClientDisconnect(s) /\ UNCHANGED clients)
    \/ \E s \in 1..Len(clients), name \in Names, port \in Ports :
          Body(ClientApp(s, name, port) /\ UNCHANGED clients)
    \/ \E resp \in SessionResponses :
          Body(AppStart(resp) /\ UNCHANGED <<clients, by>>)
    \/ \E s \in 1..Len(clients) : ScopeEnter(s)
    \/ ScopeExit
    \/ Propagate
    \/ \E app_type \in AppTypes, port \in Ports, resp \in SessionResponses :
          MockVia(app_type, port, resp)

SpecSession == Init /\ [][NextSession]_vars

\* ---------------------------------------------------------------- claims
AppOps == {"start", "stop", "status"}
HandlerOps == {"attach", "detach", "set_data", "remove_data"}

\* The step is a call of op.
Call(op) == tick' # tick /\ last'.op = op

\* The step is a call that reached the wire and got a non-200 response whose
\* body has an error field.
GotError ==
    /\ last'.sentOn # NoneConn
    /\ last'.status # OK
    /\ HasError(JsonLoads(last'.text))

\* C1: start() followed immediately by stop(), the server answering 200,
\* raises no error and leaves started = false; a second stop() right after a
\* stop() that returned fails with a precondition error.  (status 0: the call
\* ended before any response was read.)
C1_StartThenStop ==
    [][ /\ (last.op = "start" /\ last.outcome = "return" /\ Call("stop")
            /\ last'.status \in {0, OK})
           => (last'.outcome = "return" /\ ~app'.started)
        /\ (last.op = "stop" /\ last.outcome = "return" /\ Call("stop"))
           => last'.outcome = "ClientException" ]_vars

\* C2: a start on a stopped handle answered 200 leaves started = true and id
\* = the m-app-id header of that response, and returns the decoded body; no
\* other call on the handle changes id.
C2_StartCapturesId ==
    [][ /\ (Call("start") /\ ~app.started /\ last'.status = OK)
           => /\ app'.started
              /\ app'.id = last'.appid
              /\ last'.outcome = "return"
              /\ last'.body = JsonLoads(last'.text)
        /\ (tick' # tick /\ last'.op # "app"
            /\ ~(last'.op = "start" /\ last'.outcome = "return"))
           => app'.id = app.id ]_vars

C2_Witness ==
    /\ last.op = "start" /\ last.outcome = "return" /\ last.appid = "xyz789"
    /\ app.started /\ app.id = "xyz789"

\* C3: start, stop or status answered non-200 with an error field raises
\* AppException with exactly that message and leaves started and id alone.
C3_AppFailureMapping ==
    [][ (tick' # tick /\ last'.op \in AppOps /\ GotError)
        => /\ last'.outcome = "AppException"
           /\ last'.msg = JsonLoads(last'.text)["error"]
           /\ app'.started = app.started
           /\ app'.id = app.id ]_vars

C3_Witness ==
    /\ last.op = "status" /\ last.outcome = "AppException" /\ last.msg = "boom"
    /\ last.status = 500 /\ app.started

\* C4: on a handle that is not started, status(), running and handler() fail
\* with a precondition error, send nothing, open no connection and change
\* nothing.
C4_NotStartedRejected ==
    [][ (tick' # tick /\ last'.op \in {"status", "running", "handler"}
         /\ ~app.started)
        => /\ last'.outcome = "ClientException"
           /\ last'.sentOn = NoneConn
           /\ UNCHANGED <<adapters, conns, app, handler>> ]_vars

C4_Witness ==
    /\ last.op = "handler" /\ last.outcome = "ClientException"
    /\ app.exists /\ ~app.started /\ app.conn # NoneConn

\* C5: start() on a started handle fails with a precondition error before
\* anything is sent and leaves the handle alone; a start succeeds only from
\* stopped, and a handle goes from started to stopped only by a successful stop.
C5_NoDoubleStart ==
    [][ /\ (Call("start") /\ app.started)
           => /\ last'.outcome = "ClientException"
              /\ last'.sentOn = NoneConn
              /\ app' = app
        /\ (Call("start") /\ last'.outcome = "return") => ~app.started
        /\ (app.started /\ ~app'.started /\ last'.op # "app")
           => (Call("stop") /\ last'.outcome = "return") ]_vars

C5_Witness ==
    /\ last.op = "start" /\ last.outcome = "ClientException"
    /\ last.msg = "App has already started."
    /\ app.started /\ app.id # NoneId

\* C6: id is defined if and only if started is true.
C6_IdIffStarted == (app.id # NoneId) <=> app.started

C6_Witness ==
    /\ app.started /\ app.id = "abc123"
    /\ last.op = "stop"

\* C7: on a handler that starts detached, attach, set_data, remove_data,
\* detach, each answered 200, all return without error; the handler is
\* attached from the attach to the detach and detached after it, and the
\* attach that follows succeeds again.
C7_HandlerCycle ==
    /\ [](cycle >= 1 => (handler.handler_set <=> cycle \in {1, 2, 3, 5}))
    /\ [][ (tick' # tick /\ last'.op \in HandlerOps /\ cycle' >= 1)
           => /\ last'.outcome = "return"
              /\ last'.op = Expected(cycle' - 1)
              /\ last'.sentOn = handler.conn ]_vars

C7_Witness ==
    /\ cycle = 5 /\ last.op = "attach" /\ last.outcome = "return"
    /\ handler.handler_set

\* C8: attach() on a handler that is already attached fails with a
\* precondition error and sends no request.
C8_AttachOnlyFromDetached ==
    [][ (Call("attach") /\ handler.handler_set)
        => /\ last'.outcome = "ClientException"
           /\ last'.sentOn = NoneConn ]_vars

\* C9: on a detached handler, set_data, remove_data and detach fail with a
\* precondition error, send nothing and leave the handler detached.
C9_DetachedRejected ==
    [][ (tick' # tick /\ last'.op \in {"set_data", "remove_data", "detach"}
         /\ ~handler.handler_set)
        => /\ last'.outcome = "ClientException"
           /\ last'.sentOn = NoneConn
           /\ ~handler'.handler_set
           /\ UNCHANGED <<adapters, conns>> ]_vars

C9_Witness ==
    /\ last.op = "detach" /\ last.outcome = "ClientException"
    /\ handler.exists /\ ~handler.handler_set

\* C10: attach, detach, set_data or remove_data answered non-200 with an
\* error field raises HandlerException with that message and leaves the
\* attached flag as it was.
C10_HandlerFailureMapping ==
    [][ (tick' # tick /\ last'.op \in HandlerOps /\ GotError)
        => /\ last'.outcome = "HandlerException"
           /\ last'.msg = JsonLoads(last'.text)["error"]
           /\ handler'.handler_set = handler.handler_set ]_vars

C10_Witness ==
    /\ last.op = "detach" /\ last.outcome = "HandlerException"
    /\ last.msg = "oops" /\ handler.handler_set

\* The connections created by adapter a and not yet closed.
Live(a) == {c \in 1..Len(conns) : conns[c].adapter = a /\ ~conns[c].closed}

\* C13: handler() on a started App changes nothing on the App; with no
\* adapter supplied it opens a fresh adapter to the app's port and binds the
\* Handler to its connection; with an already-connected adapter supplied the
\* Handler is bound to that adapter's existing connection and no connection
\* is opened.  (No adapter is added exactly when one was supplied.)
C13_HandlerBinding ==
    [][ (Call("handler") /\ last'.outcome = "return")
        => /\ app' = app
           /\ Len(adapters') > Len(adapters)
              => LET a == Len(adapters') IN
                 /\ adapters'[a].port = app.port
                 /\ adapters'[a].connected
                 /\ handler'.conn = adapters'[a].conn
                 /\ conns'[handler'.conn].adapter = a
           /\ (Len(adapters') = Len(adapters) /\ adapters[1].connected)
              => /\ handler'.conn = adapters[1].conn
                 /\ conns' = conns ]_vars

\* C14: at most one connection created by an adapter is live (created and
\* not yet closed).
C14_OneLiveConnection ==
    \A a \in 1..Len(adapters) : Cardinality(Live(a)) <= 1

\* C15: conn is empty whenever the adapter is not connected, and is the live
\* connection while it is connected.
C15_ConnEmptyUnlessConnected ==
    \A a \in 1..Len(adapters) :
        IF adapters[a].connected
          THEN adapters[a].conn \in Live(a)
          ELSE adapters[a].conn = NoneConn

\* The calls that talk to the server, and whether the guard of the call op
\* lets it through in the current state.
WireOps == {"start", "stop", "status", "running"} \cup HandlerOps

PassesGuard(op) ==
    CASE op = "start" -> StartPermitted(app)
      [] op = "stop" -> StopPermitted(app)
      [] op = "status" -> StatusPermitted(app)
      [] op = "running" -> RunningPermitted(app) /\ StatusPermitted(app)
      [] op = "set_data" -> SetDataPermitted(handler)
      [] op = "remove_data" -> RemoveDataPermitted(handler)
      [] op = "detach" -> DetachPermitted(handler)
      [] op = "attach" -> TRUE

\* The connection the handle of the call op is bound to.
BoundConn(op) == IF op \in HandlerOps THEN handler.conn ELSE app.conn

C17_HandlesNeverClose ==
    [][ (tick' # tick /\ last'.op \in WireOps \cup {"handler"})
        => /\ \A c \in 1..Len(conns) : conns'[c].closed = conns[c].closed
           /\ \A s \in 1..Len(clients) :
                adapters'[clients[s].adapter].connected
                  = adapters[clients[s].adapter].connected ]_vars

\* C19: the connection of an App is the conn of the Client's adapter at the
\* moment Client.app() is called; no later call changes it, and every request
\* of the App goes out on it, whatever the adapter's conn is by then.
C19_ConnSnapshot ==
    [][ /\ Call("app") => app'.conn = adapters[clients[by'].adapter].conn
        /\ (tick' # tick /\ last'.op # "app") => app'.conn = app.conn
        /\ (tick' # tick /\ last'.op \in {"start", "stop", "status", "running"}
            /\ last'.sent > 0)
           => last'.sentOn = app.conn ]_vars

C19_Witness ==
    /\ last.op = "status" /\ last.outcome = "return" /\ last.sentOn = 1
    /\ app.conn = 1 /\ conns[1].closed
    /\ adapters[1].connected /\ adapters[1].conn = 2

\* C11: however a `with` block on a Client is left, __exit__ calls the
\* adapter's disconnect() exactly once; when it is left by an exception, the
\* disconnect is done before the exception reaches the caller, and the
\* caller receives that same exception.
C11_ScopeDisconnectsOnce ==
    /\ [](scope.pc = "propagating"
          => /\ scope.exits = 1
             /\ ~adapters[clients[scope.client].adapter].connected)
    /\ [][ /\ (scope.pc = "in" /\ scope'.pc = "raised")
              => (scope'.pending = last' /\ last'.outcome # "return")
           /\ scope.pc = "raised"
              => /\ last'.op = "exit"
                 /\ scope'.pc = "propagating"
                 /\ scope'.pending = scope.pending
           /\ scope.pc = "propagating"
              => (last' = scope.pending /\ scope'.pc = "out")
           /\ (scope.pc # "out" /\ scope'.pc = "out")
              => scope'.exits = 1 ]_vars

C11_Witness ==
    /\ scope.pc = "propagating" /\ scope.exits = 1 /\ last.op = "exit"
    /\ scope.pending.op = "start" /\ scope.pending.outcome = "AppException"
    /\ scope.pending.msg = "boom"

\* C12: mock_via returns a started App with the id the server assigned and
\* leaves the default adapter disconnected; when the start fails, the adapter
\* is disconnected once all the same, no App is returned, and the failure is
\* an AppException with the server's message when the body has an error field.
C12_MockVia ==
    [][ Call("mock_via")
        => /\ scope'.exits = 1
           /\ ~adapters'[1].connected
           /\ conns'[last'.sentOn].closed
           /\ last'.sent = 1
           /\ IF last'.status = OK
                THEN /\ last'.outcome = "return"
                     /\ app'.started
                     /\ app'.id = last'.appid
                     /\ app'.conn = last'.sentOn
                     /\ app'.name \in AppTypes
                ELSE /\ app' = app
                     /\ last'.outcome # "return"
                     /\ HasError(JsonLoads(last'.text))
                        => /\ last'.outcome = "AppException"
                           /\ last'.msg = JsonLoads(last'.text)["error"] ]_vars

C12_Witness ==
    /\ last.op = "mock_via" /\ last.outcome = "return"
    /\ app.started /\ app.id = "xyz789" /\ app.name = "flask"
    /\ ~adapters[1].connected /\ conns[app.conn].closed

\* What Client s sees of its adapter.
View(s) ==
    [conn |-> adapters[clients[s].adapter].conn,
     connected |-> adapters[clients[s].adapter].connected]

\* What Client s sees of its adapter after the step.
ViewAfter(s) ==
    [conn |-> adapters'[clients'[s].adapter].conn,
     connected |-> adapters'[clients'[s].adapter].connected]

\* C18: all Clients constructed without an adapter hold the same adapter
\* object, so a connect or a disconnect made through one of them (by a call
\* or by its `with` block) changes the conn and the connected flag every
\* other one sees.
C18_SharedDefaultAdapter ==
    /\ [](\A s, t \in 1..Len(clients) :
            (clients[s].dflt /\ clients[t].dflt)
            => clients[s].adapter = clients[t].adapter)
    /\ [][ (tick' # tick /\ last'.outcome = "return"
            /\ last'.op \in {"connect", "enter", "disconnect", "exit"}
            /\ clients[by'].dflt)
           => \A t \in 1..Len(clients) :
                clients[t].dflt
                => /\ ViewAfter(t) = ViewAfter(by')
                   /\ last'.op \in {"connect", "enter"}
                      => /\ ViewAfter(t).connected
                         /\ ViewAfter(t).conn # View(t).conn
                   /\ last'.op \in {"disconnect", "exit"}
                      => ~ViewAfter(t).connected ]_vars

C18_Witness ==
    /\ Len(clients) = 2 /\ clients[2].dflt /\ by = 1
    /\ last.op = "exit" /\ last.outcome = "return"
    /\ Len(conns) = 2 /\ conns[2].closed /\ ~conns[1].closed
    /\ ~View(2).connected /\ View(2).conn = 2
====
